---- MODULE Spec2Model ----
(***************************************************************************)
(* A model of the tcpoptions crate (src/src/lib.rs): the TcpOption enum,   *)
(* the lazily built OPTION_PARSERS registry and each registered parser     *)
(* closure, together with the TLV walker and decode pipeline that spec.md  *)
(* sections 4.2 and 4.3 place on top of the registry.                      *)
(*                                                                         *)
(* Bytes are naturals in 0..255.  Slice offsets are 0-based as in the      *)
(* source; a sequence position is the offset plus one.  A u8 or u16 is a   *)
(* natural; a u32, u64 or u128 is the sequence of its 16-bit limbs, most   *)
(* significant first (2, 4 and 8 limbs), so that no value leaves the range *)
(* of the checker's integers.                                              *)
(***************************************************************************)
EXTENDS Integers, Sequences, FiniteSets, TLC

VARIABLES
    looked,     \* the key last passed to OPTION_PARSERS.get, or NoKey
    found,      \* whether that lookup returned a parser
    called,     \* whether the parser found has been invoked
    data,       \* the entry bytes the parser was invoked on
    result,     \* what that invocation produced
    saved,      \* an earlier invocation, remembered for comparison
    buffer,     \* walker: the options buffer
    position,   \* walker: offset of the next entry
    out,        \* pipeline: the options decoded so far
    status,     \* walker: "walking", "done", "error" or "panic"
    err,        \* walker: the structural error, or NoError
    oob,        \* walker: whether a byte outside the buffer has been read
    cell,       \* Lazy: "incomplete", "running" or "complete"
    value,      \* Lazy: the published table
    parsers,    \* the table the construction closure is filling
    ip,         \* how many insert statements the closure has executed
    runs,       \* how many times the closure has been started
    tpc,        \* per thread: "idle", "init", "wait" or "got"
    seen        \* per thread: the table it observed through the Lazy

decVars == <<looked, found, called, data, result, saved>>
walkVars == <<buffer, position, out, status, err, oob>>
lazyVars == <<cell, value, parsers, ip, runs, tpc, seen>>
vars == <<decVars, walkVars, lazyVars>>

(***************************************************************************)
(* Bounds of the model.                                                    *)
(***************************************************************************)
MaxFullLen == 4
MaxEntryLen == 19
MaxIdemSeeds == 2
MaxBufLen == 4
MaxChunks == 3
NumThreads == 3

NoKey == 256

(***************************************************************************)
(* Values: Option<TcpOption> and the panic outcome of an invocation.       *)
(***************************************************************************)
NoOpt == [variant |-> "", val |-> <<>>]
None == [tag |-> "None", opt |-> NoOpt]
Some(o) == [tag |-> "Some", opt |-> o]
Panic == [tag |-> "Panic", opt |-> NoOpt]
NoResult == [tag |-> "NoResult", opt |-> NoOpt]

Opt(variant, val) == [variant |-> variant, val |-> val]

\* The enum's discriminants (#[repr(u8)]).
Discriminant ==
    [v \in {"EndOfOptionList", "NoOperation", "MaximumSegmentSize", "WindowScale",
            "SackPermitted", "Sack", "Timestamp", "Skeeter", "Bubba",
            "TrailerChecksum", "SCPSCapabilities",
            "SelectiveNegativeAcknowledgements", "RecordBoundaries",
            "CorruptionExperienced", "SNAP", "TCPCompressionFilter",
            "QuickStartResponse", "UserTimeout", "TCPAuthenticationOption",
            "MultipathTCP", "TCPFastOpenCookie", "EncryptionNegotiation",
            "AccECNOrder0", "AccECNOrder1", "RFC3692Experiment1",
            "RFC3692Experiment2"} |->
        CASE v = "EndOfOptionList" -> 0
          [] v = "NoOperation" -> 1
          [] v = "MaximumSegmentSize" -> 2
          [] v = "WindowScale" -> 3
          [] v = "SackPermitted" -> 4
          [] v = "Sack" -> 5
          [] v = "Timestamp" -> 8
          [] v = "Skeeter" -> 16
          [] v = "Bubba" -> 17
          [] v = "TrailerChecksum" -> 18
          [] v = "SCPSCapabilities" -> 20
          [] v = "SelectiveNegativeAcknowledgements" -> 21
          [] v = "RecordBoundaries" -> 22
          [] v = "CorruptionExperienced" -> 23
          [] v = "SNAP" -> 24
          [] v = "TCPCompressionFilter" -> 26
          [] v = "QuickStartResponse" -> 27
          [] v = "UserTimeout" -> 28
          [] v = "TCPAuthenticationOption" -> 29
          [] v = "MultipathTCP" -> 30
          [] v = "TCPFastOpenCookie" -> 34
          [] v = "EncryptionNegotiation" -> 69
          [] v = "AccECNOrder0" -> 172
          [] v = "AccECNOrder1" -> 174
          [] v = "RFC3692Experiment1" -> 253
          [] v = "RFC3692Experiment2" -> 254]

(***************************************************************************)
(* Slices.  &data[a..b] panics unless a <= b <= data.len(); data[i] panics *)
(* unless i < data.len(); dst.copy_from_slice(src) panics unless the two   *)
(* lengths are equal.                                                      *)
(***************************************************************************)
BadSlice == [ok |-> FALSE, bytes |-> <<>>]

SliceRange(bytes, a, b) ==
    IF a <= b /\ b <= Len(bytes)
    THEN [ok |-> TRUE, bytes |-> SubSeq(bytes, a + 1, b)]
    ELSE BadSlice

IndexOk(bytes, i) == i < Len(bytes)

CopyFromSlice(n, src) ==
    IF src.ok /\ Len(src.bytes) = n THEN src ELSE BadSlice

\* Faulty variant of U16FromBe: the two bytes read little-endian.
U16FromLe(b) == b[2] * 256 + b[1]

\* u16::from_be_bytes
U16FromBe(b) == b[1] * 256 + b[2]

\* u32::, u64:: and u128::from_be_bytes, as 16-bit limbs
LimbsFromBe(b) == [j \in 1..(Len(b) \div 2) |-> b[2 * j - 1] * 256 + b[2 * j]]

(***************************************************************************)
(* The parser closures, in the order the construction closure inserts      *)
(* them.  Each takes the entry bytes and returns None, Some(option) or     *)
(* panics.                                                                 *)
(***************************************************************************)
Marker(variant) == Some(Opt(variant, <<>>))

ParseNoOperation(bytes) == Marker("NoOperation")

\* Faulty variant of ParseMaximumSegmentSize: the closure keeps the option it
\* decoded last and returns it again instead of decoding the new entry.
ParseMaximumSegmentSizeCached(bytes) ==
    IF Len(bytes) # 4 THEN None
    ELSE IF result.tag = "Some" /\ result.opt.variant = "MaximumSegmentSize"
    THEN result
    ELSE Some(Opt("MaximumSegmentSize", <<bytes[3] * 256 + bytes[4]>>))

ParseMaximumSegmentSize(bytes) ==
    IF Len(bytes) # 4 THEN None
    ELSE LET mss_bytes == CopyFromSlice(2, SliceRange(bytes, 2, Len(bytes)))
         IN  IF ~mss_bytes.ok THEN Panic
             ELSE Some(Opt("MaximumSegmentSize", <<U16FromBe(mss_bytes.bytes)>>))

ParseWindowScale(bytes) ==
    IF Len(bytes) # 3 THEN None
    ELSE IF ~IndexOk(bytes, 2) THEN Panic
    ELSE Some(Opt("WindowScale", <<bytes[3]>>))

ParseSackPermitted(bytes) == Marker("SackPermitted")

\* Faulty variant of SackLoop: the early break also fires when exactly 8
\* bytes remain, so the last block is dropped.
RECURSIVE SackLoopDropsLast(_, _, _)
SackLoopDropsLast(bytes, i, sacks) ==
    IF i >= Len(bytes) THEN Some(Opt("Sack", sacks))
    ELSE IF i + 8 >= Len(bytes) THEN Some(Opt("Sack", sacks))
    ELSE SackLoopDropsLast(bytes, i + 8,
             Append(sacks,
                 [left_edge |-> LimbsFromBe(SubSeq(bytes, i + 1, i + 4)),
                  right_edge |-> LimbsFromBe(SubSeq(bytes, i + 5, i + 8))]))

RECURSIVE SackLoop(_, _, _)
SackLoop(bytes, i, sacks) ==
    IF i >= Len(bytes) THEN Some(Opt("Sack", sacks))
    ELSE IF i + 8 > Len(bytes) THEN Some(Opt("Sack", sacks))
    ELSE LET left_edge_bytes == CopyFromSlice(4, SliceRange(bytes, i, i + 4))
             right_edge_bytes == CopyFromSlice(4, SliceRange(bytes, i + 4, i + 8))
         IN  IF ~left_edge_bytes.ok \/ ~right_edge_bytes.ok THEN Panic
             ELSE SackLoop(bytes, i + 8,
                      Append(sacks,
                          [left_edge |-> LimbsFromBe(left_edge_bytes.bytes),
                           right_edge |-> LimbsFromBe(right_edge_bytes.bytes)]))

ParseSack(bytes) ==
    IF Len(bytes) < 2 \/ Len(bytes) % 8 # 2 THEN None
    ELSE SackLoop(bytes, 2, <<>>)

ParseTimestamp(bytes) ==
    IF Len(bytes) # 10 THEN None
    ELSE LET tsval_bytes == CopyFromSlice(4, SliceRange(bytes, 2, 6))
             tsecr_bytes == CopyFromSlice(4, SliceRange(bytes, 6, 10))
         IN  IF ~tsval_bytes.ok \/ ~tsecr_bytes.ok THEN Panic
             ELSE Some(Opt("Timestamp",
                      <<[value |-> LimbsFromBe(tsval_bytes.bytes),
                         echo_reply |-> LimbsFromBe(tsecr_bytes.bytes)]>>))

ParseSkeeter(bytes) == Marker("Skeeter")

ParseBubba(bytes) == Marker("Bubba")

ParseTrailerChecksum(bytes) ==
    IF Len(bytes) # 3 THEN None
    ELSE IF ~IndexOk(bytes, 2) THEN Panic
    ELSE Some(Opt("TrailerChecksum", <<bytes[3]>>))

ParseSCPSCapabilities(bytes) == Marker("SCPSCapabilities")

ParseSelectiveNegativeAcknowledgements(bytes) ==
    Marker("SelectiveNegativeAcknowledgements")

ParseRecordBoundaries(bytes) == Marker("RecordBoundaries")

ParseCorruptionExperienced(bytes) == Marker("CorruptionExperienced")

ParseSNAP(bytes) == Marker("SNAP")

ParseTCPCompressionFilter(bytes) == Marker("TCPCompressionFilter")

ParseQuickStartResponse(bytes) ==
    IF Len(bytes) # 8 THEN None
    ELSE LET cookie_bytes == CopyFromSlice(8, SliceRange(bytes, 2, 8))
         IN  IF ~cookie_bytes.ok THEN Panic
             ELSE Some(Opt("QuickStartResponse", <<LimbsFromBe(cookie_bytes.bytes)>>))

ParseUserTimeout(bytes) ==
    IF Len(bytes) # 4 THEN None
    ELSE LET timeout_bytes == CopyFromSlice(2, SliceRange(bytes, 2, 4))
         IN  IF ~timeout_bytes.ok THEN Panic
             ELSE Some(Opt("UserTimeout", <<U16FromBe(timeout_bytes.bytes)>>))

ParseTCPAuthenticationOption(bytes) == Marker("TCPAuthenticationOption")

\* data_bytes.extend_from_slice(&data[2..data.len()]), shared by the four
\* opaque-payload parsers
OpaquePayload(variant, bytes) ==
    IF Len(bytes) < 4 THEN None
    ELSE LET data_bytes == SliceRange(bytes, 2, Len(bytes))
         IN  IF ~data_bytes.ok THEN Panic
             ELSE Some(Opt(variant, data_bytes.bytes))

ParseMultipathTCP(bytes) == OpaquePayload("MultipathTCP", bytes)

ParseTCPFastOpenCookie(bytes) ==
    IF Len(bytes) # 18 THEN None
    ELSE LET cookie_bytes == CopyFromSlice(16, SliceRange(bytes, 2, 18))
         IN  IF ~cookie_bytes.ok THEN Panic
             ELSE Some(Opt("TCPFastOpenCookie", <<LimbsFromBe(cookie_bytes.bytes)>>))

ParseEncryptionNegotiation(bytes) == OpaquePayload("EncryptionNegotiation", bytes)

ParseAccECNOrder0(bytes) == OpaquePayload("AccECNOrder0", bytes)

ParseAccECNOrder1(bytes) == OpaquePayload("AccECNOrder1", bytes)

\* Dynamic dispatch through the boxed closure named p.
Invoke(p, bytes) ==
    CASE p = "NoOperation" -> ParseNoOperation(bytes)
      [] p = "MaximumSegmentSize" -> ParseMaximumSegmentSize(bytes)
      [] p = "WindowScale" -> ParseWindowScale(bytes)
      [] p = "SackPermitted" -> ParseSackPermitted(bytes)
      [] p = "Sack" -> ParseSack(bytes)
      [] p = "Timestamp" -> ParseTimestamp(bytes)
      [] p = "Skeeter" -> ParseSkeeter(bytes)
      [] p = "Bubba" -> ParseBubba(bytes)
      [] p = "TrailerChecksum" -> ParseTrailerChecksum(bytes)
      [] p = "SCPSCapabilities" -> ParseSCPSCapabilities(bytes)
      [] p = "SelectiveNegativeAcknowledgements" ->
             ParseSelectiveNegativeAcknowledgements(bytes)
      [] p = "RecordBoundaries" -> ParseRecordBoundaries(bytes)
      [] p = "CorruptionExperienced" -> ParseCorruptionExperienced(bytes)
      [] p = "SNAP" -> ParseSNAP(bytes)
      [] p = "TCPCompressionFilter" -> ParseTCPCompressionFilter(bytes)
      [] p = "QuickStartResponse" -> ParseQuickStartResponse(bytes)
      [] p = "UserTimeout" -> ParseUserTimeout(bytes)
      [] p = "TCPAuthenticationOption" -> ParseTCPAuthenticationOption(bytes)
      [] p = "MultipathTCP" -> ParseMultipathTCP(bytes)
      [] p = "TCPFastOpenCookie" -> ParseTCPFastOpenCookie(bytes)
      [] p = "EncryptionNegotiation" -> ParseEncryptionNegotiation(bytes)
      [] p = "AccECNOrder0" -> ParseAccECNOrder0(bytes)
      [] p = "AccECNOrder1" -> ParseAccECNOrder1(bytes)

(***************************************************************************)
(* The registry.  Inserts lists the parsers.insert(key, closure)           *)
(* statements of the construction closure in program order; HashMap::insert *)
(* replaces the value of a key already present.                            *)
(***************************************************************************)
Inserts ==
    << <<1, "NoOperation">>, <<2, "MaximumSegmentSize">>, <<3, "WindowScale">>,
       <<4, "SackPermitted">>, <<5, "Sack">>, <<8, "Timestamp">>,
       <<16, "Skeeter">>, <<17, "Bubba">>, <<18, "TrailerChecksum">>,
       <<20, "SCPSCapabilities">>, <<21, "SelectiveNegativeAcknowledgements">>,
       <<22, "RecordBoundaries">>, <<23, "CorruptionExperienced">>,
       <<24, "SNAP">>, <<26, "TCPCompressionFilter">>,
       <<27, "QuickStartResponse">>, <<28, "UserTimeout">>,
       <<29, "TCPAuthenticationOption">>, <<30, "MultipathTCP">>,
       <<34, "TCPFastOpenCookie">>, <<69, "EncryptionNegotiation">>,
       <<172, "AccECNOrder0">>, <<174, "AccECNOrder1">> >>

EmptyMap == [k \in {} |-> ""]

MapInsert(m, kv) ==
    [k \in DOMAIN m \cup {kv[1]} |-> IF k = kv[1] THEN kv[2] ELSE m[k]]

RECURSIVE BuildTo(_)
BuildTo(n) == IF n = 0 THEN EmptyMap ELSE MapInsert(BuildTo(n - 1), Inserts[n])

\* The table the construction closure returns.
OPTION_PARSERS == BuildTo(Len(Inserts))

ContainsKey(k) == k \in DOMAIN OPTION_PARSERS

\* OPTION_PARSERS.get(&k) followed by a call of the parser found.
Parser(k, bytes) == Invoke(OPTION_PARSERS[k], bytes)

(***************************************************************************)
(* Inputs.  Entries holds every byte string over ByteVals up to MaxFullLen *)
(* bytes, the strings seed, seed+stride, seed+2*stride, ... (mod 256) of   *)
(* every length up to MaxEntryLen, whose bytes differ from offset to       *)
(* offset, and the entry of spec.md section 8.                             *)
(***************************************************************************)
ByteVals == {0, 180, 255}
Seeds == {1, 200}
Strides == {1, 37}
IdemLens == {2, 4, 8, 10}
MSSExample == <<2, 4, 5, 180>>

Pattern(n, seed, stride) == [i \in 1..n |-> (seed + (i - 1) * stride) % 256]

Entries ==
    UNION {[1..n -> ByteVals] : n \in 0..MaxFullLen}
    \cup {Pattern(n, s, st) : n \in 0..MaxEntryLen, s \in Seeds, st \in Strides}
    \cup {MSSExample}

IdemEntries == {Pattern(n, 16 * s, 3) : n \in IdemLens, s \in 1..MaxIdemSeeds}

NoCall == [kind |-> NoKey, data |-> <<>>, result |-> NoResult, between |-> FALSE]

(***************************************************************************)
(* Use of the registry by a caller: a lookup, then calls of the parser.    *)
(***************************************************************************)
DecInit ==
    /\ looked = NoKey
    /\ found = FALSE
    /\ called = FALSE
    /\ data = <<>>
    /\ result = NoResult
    /\ saved = NoCall

\* OPTION_PARSERS.get(&k)
Get(k) ==
    /\ looked' = k
    /\ found' = ContainsKey(k)
    /\ called' = FALSE
    /\ data' = <<>>
    /\ result' = NoResult
    /\ UNCHANGED <<saved, walkVars, lazyVars>>

\* parser(d), for the parser the lookup returned
Call(d) ==
    /\ found
    /\ called' = TRUE
    /\ data' = d
    /\ result' = Parser(looked, d)
    /\ saved' = IF saved.kind # NoKey /\ (looked # saved.kind \/ d # saved.data)
                THEN [saved EXCEPT !.between = TRUE]
                ELSE saved
    /\ UNCHANGED <<looked, found, walkVars, lazyVars>>

\* The caller keeps the outcome of the invocation just made; `between` records
\* whether a call of another parser or on other bytes has followed it.
Save ==
    /\ called
    /\ saved' = [kind |-> looked, data |-> data, result |-> result,
                 between |-> FALSE]
    /\ UNCHANGED <<looked, found, called, data, result, walkVars, lazyVars>>

(***************************************************************************)
(* The TLV walker and the decode pipeline (spec.md sections 4.2 and 4.3).  *)
(* The walker reads the kind and length bytes, the pipeline decodes the    *)
(* entry the walker located and appends it to the result.                  *)
(***************************************************************************)
WalkBytes == {0, 1, 2, 3, 4, 99}

Chunks ==
    { <<1>>, <<0>>, MSSExample, <<99, 4, 170, 187>>, <<2, 3, 7>>, <<4, 2>>,
      <<27, 8, 1, 2, 3, 4, 5, 6>>, <<5, 10, 0, 1, 2, 3, 4, 5, 6, 7>>,
      <<2, 10>>, <<2>>, <<2, 1>> }

RECURSIVE ChunkSeqs(_)
ChunkSeqs(n) ==
    IF n = 0 THEN {<<>>}
    ELSE LET shorter == ChunkSeqs(n - 1)
         IN  shorter \cup {b \o c : b \in shorter, c \in Chunks}

Buffers ==
    UNION {[1..n -> WalkBytes] : n \in 0..MaxBufLen} \cup ChunkSeqs(MaxChunks)

NoError == "NoError"

\* buffer[i], with the read recorded; a read outside the buffer yields 0 here
InBuffer(i) == i >= 0 /\ i < Len(buffer)
ByteAt(i) == IF InBuffer(i) THEN buffer[i + 1] ELSE 0

\* Faulty variant of HasLengthByte: the bound is checked for the kind byte
\* instead of the length byte.
HasLengthByteOffByOne(pos) == pos < Len(buffer)

\* step 4: a length byte exists at position + 1
HasLengthByte(pos) == pos + 1 < Len(buffer)

\* step 5: the declared length is at least the two header bytes
ValidLength(len) == len >= 2

\* step 5: the entry ends inside the buffer
FitsBuffer(pos, len) == pos + len <= Len(buffer)

Unknown(kind, payload) == Opt("Unknown", <<kind, payload>>)
Malformed(kind, len, payload) == Opt("Malformed", <<kind, len, payload>>)

\* section 4.3, for an entry whose kind is neither 0 nor 1; the outcome of the
\* registered parser decides among the typed variant, Malformed and a panic
DecodeEntry(kind, len, entry) ==
    LET payload == SubSeq(entry, 3, Len(entry))
    IN  IF ~ContainsKey(kind) THEN Some(Unknown(kind, payload))
        ELSE LET r == Parser(kind, entry)
             IN  IF r.tag = "Some" THEN r
                 ELSE IF r.tag = "None" THEN Some(Malformed(kind, len, payload))
                 ELSE Panic

Emitted(entry, o) == [raw |-> entry, opt |-> o]

WalkInit ==
    /\ buffer \in Buffers
    /\ position = 0
    /\ out = <<>>
    /\ status = "walking"
    /\ err = NoError
    /\ oob = FALSE

\* step 1
WalkEnd ==
    /\ status = "walking"
    /\ position >= Len(buffer)
    /\ status' = "done"
    /\ UNCHANGED <<buffer, position, out, err, oob, decVars, lazyVars>>

\* step 2
WalkEndOfOptionList ==
    /\ status = "walking"
    /\ position < Len(buffer)
    /\ ByteAt(position) = 0
    /\ out' = Append(out, Emitted(<<0>>, Opt("EndOfOptionList", <<>>)))
    /\ status' = "done"
    /\ UNCHANGED <<buffer, position, err, oob, decVars, lazyVars>>

\* step 3
WalkNoOperation ==
    /\ status = "walking"
    /\ position < Len(buffer)
    /\ ByteAt(position) = 1
    /\ out' = Append(out, Emitted(<<1>>, Opt("NoOperation", <<>>)))
    /\ position' = position + 1
    /\ UNCHANGED <<buffer, status, err, oob, decVars, lazyVars>>

\* step 4, failing
WalkTruncatedHeader ==
    /\ status = "walking"
    /\ position < Len(buffer)
    /\ ByteAt(position) \notin {0, 1}
    /\ ~HasLengthByte(position)
    /\ status' = "error"
    /\ err' = "TruncatedHeader"
    /\ UNCHANGED <<buffer, position, out, oob, decVars, lazyVars>>

\* step 5, failing on the length field
WalkInvalidLength ==
    /\ status = "walking"
    /\ position < Len(buffer)
    /\ ByteAt(position) \notin {0, 1}
    /\ HasLengthByte(position)
    /\ ~ValidLength(ByteAt(position + 1))
    /\ oob' = (oob \/ ~InBuffer(position + 1))
    /\ status' = "error"
    /\ err' = "InvalidLength"
    /\ UNCHANGED <<buffer, position, out, decVars, lazyVars>>

\* step 5, failing on the end of the buffer
WalkLengthExceedsBuffer ==
    /\ status = "walking"
    /\ position < Len(buffer)
    /\ ByteAt(position) \notin {0, 1}
    /\ HasLengthByte(position)
    /\ ValidLength(ByteAt(position + 1))
    /\ ~FitsBuffer(position, ByteAt(position + 1))
    /\ oob' = (oob \/ ~InBuffer(position + 1))
    /\ status' = "error"
    /\ err' = "LengthExceedsBuffer"
    /\ UNCHANGED <<buffer, position, out, decVars, lazyVars>>

\* step 6 and the pipeline's decode of the entry
WalkEmit ==
    /\ status = "walking"
    /\ position < Len(buffer)
    /\ ByteAt(position) \notin {0, 1}
    /\ HasLengthByte(position)
    /\ ValidLength(ByteAt(position + 1))
    /\ FitsBuffer(position, ByteAt(position + 1))
    /\ LET kind == ByteAt(position)
           len == ByteAt(position + 1)
           entry == [i \in 1..len |-> ByteAt(position + i - 1)]
           r == DecodeEntry(kind, len, entry)
       IN  /\ oob' = (oob \/ \E i \in position..(position + len - 1) : ~InBuffer(i))
           /\ IF r.tag = "Some"
              THEN /\ out' = Append(out, Emitted(entry, r.opt))
                   /\ position' = position + len
                   /\ status' = status
              ELSE /\ status' = "panic"
                   /\ UNCHANGED <<out, position>>
    /\ UNCHANGED <<buffer, err, decVars, lazyVars>>

(***************************************************************************)
(* First use of the registry: static OPTION_PARSERS: Lazy<..> =            *)
(* Lazy::new(closure).  A thread that dereferences the Lazy finds it       *)
(* complete and reads the table, or finds it untouched and runs the        *)
(* closure, or finds another thread running the closure and waits.         *)
(***************************************************************************)
Threads == 1..NumThreads

\* the keys the construction closure registers
RegisteredKinds ==
    {1, 2, 3, 4, 5, 8, 16, 17, 18, 20, 21, 22, 23, 24, 26, 27, 28, 29, 30, 34,
     69, 172, 174}

\* Faulty variant of ClosureDone: the closure returns before its last insert.
ClosureDoneEarly == ip >= Len(Inserts) - 1

\* the closure has executed its last insert and returns `parsers`
ClosureDone == ip = Len(Inserts)

LazyInit ==
    /\ cell = "incomplete"
    /\ value = EmptyMap
    /\ parsers = EmptyMap
    /\ ip = 0
    /\ runs = 0
    /\ tpc = [t \in Threads |-> "idle"]
    /\ seen = [t \in Threads |-> EmptyMap]

\* Deref of a complete Lazy
DerefComplete(t) ==
    /\ tpc[t] = "idle"
    /\ cell = "complete"
    /\ tpc' = [tpc EXCEPT ![t] = "got"]
    /\ seen' = [seen EXCEPT ![t] = value]
    /\ UNCHANGED <<cell, value, parsers, ip, runs, decVars, walkVars>>

\* Deref of an untouched Lazy: this thread starts the closure
DerefStart(t) ==
    /\ tpc[t] = "idle"
    /\ cell = "incomplete"
    /\ cell' = "running"
    /\ tpc' = [tpc EXCEPT ![t] = "init"]
    /\ parsers' = EmptyMap
    /\ ip' = 0
    /\ runs' = runs + 1
    /\ UNCHANGED <<value, seen, decVars, walkVars>>

\* Deref while another thread runs the closure
DerefWait(t) ==
    /\ tpc[t] = "idle"
    /\ cell = "running"
    /\ tpc' = [tpc EXCEPT ![t] = "wait"]
    /\ UNCHANGED <<cell, value, parsers, ip, runs, seen, decVars, walkVars>>

\* one parsers.insert(key, closure) statement
InsertStep(t) ==
    /\ tpc[t] = "init"
    /\ ~ClosureDone
    /\ ip < Len(Inserts)
    /\ parsers' = MapInsert(parsers, Inserts[ip + 1])
    /\ ip' = ip + 1
    /\ UNCHANGED <<cell, value, runs, tpc, seen, decVars, walkVars>>

\* the closure returns and the Lazy publishes its value
Publish(t) ==
    /\ tpc[t] = "init"
    /\ ClosureDone
    /\ value' = parsers
    /\ cell' = "complete"
    /\ tpc' = [tpc EXCEPT ![t] = "got"]
    /\ seen' = [seen EXCEPT ![t] = parsers]
    /\ UNCHANGED <<parsers, ip, runs, decVars, walkVars>>

\* a waiting thread resumes once the Lazy is complete
Wake(t) ==
    /\ tpc[t] = "wait"
    /\ cell = "complete"
    /\ tpc' = [tpc EXCEPT ![t] = "got"]
    /\ seen' = [seen EXCEPT ![t] = value]
    /\ UNCHANGED <<cell, value, parsers, ip, runs, decVars, walkVars>>

\* the caller drops its reference; it may dereference again later
Release(t) ==
    /\ tpc[t] = "got"
    /\ tpc' = [tpc EXCEPT ![t] = "idle"]
    /\ seen' = [seen EXCEPT ![t] = EmptyMap]
    /\ UNCHANGED <<cell, value, parsers, ip, runs, decVars, walkVars>>

(***************************************************************************)
(* Specifications.                                                         *)
(***************************************************************************)
WalkIdle ==
    /\ buffer = <<>>
    /\ position = 0
    /\ out = <<>>
    /\ status = "done"
    /\ err = NoError
    /\ oob = FALSE

\* The registry after its first use.
LazyBuilt ==
    /\ cell = "complete"
    /\ value = OPTION_PARSERS
    /\ parsers = OPTION_PARSERS
    /\ ip = Len(Inserts)
    /\ runs = 1
    /\ tpc = [t \in Threads |-> "idle"]
    /\ seen = [t \in Threads |-> EmptyMap]

\* Calls of the registered parsers on the entries of Entries.
Init == DecInit /\ WalkIdle /\ LazyBuilt

Next ==
    \/ \E k \in 0..255 : Get(k)
    \/ \E d \in Entries : Call(d)

Spec == Init /\ [][Next]_vars

\* Repeated calls, with the outcome of an earlier one kept.
NextIdem ==
    \/ \E k \in RegisteredKinds \cup {99} : Get(k)
    \/ \E d \in IdemEntries : Call(d)
    \/ Save

SpecIdem == Init /\ [][NextIdem]_vars

\* The walker and pipeline over the buffers of Buffers.
InitWalk == DecInit /\ WalkInit /\ LazyBuilt

NextWalk ==
    \/ WalkEnd
    \/ WalkEndOfOptionList
    \/ WalkNoOperation
    \/ WalkTruncatedHeader
    \/ WalkInvalidLength
    \/ WalkLengthExceedsBuffer
    \/ WalkEmit

SpecWalk == InitWalk /\ [][NextWalk]_vars

\* Concurrent first use of the registry.
NextLazy ==
    \E t \in Threads :
        \/ DerefComplete(t)
        \/ DerefStart(t)
        \/ DerefWait(t)
        \/ InsertStep(t)
        \/ Publish(t)
        \/ Wake(t)
        \/ Release(t)

InitLazy == DecInit /\ WalkIdle /\ LazyInit

SpecLazy == InitLazy /\ [][NextLazy]_vars

(***************************************************************************)
(* Properties.                                                             *)
(***************************************************************************)
\* the big-endian u16 at offset off of d, and the u32 there as two limbs
BE16At(d, off) == d[off + 1] * 256 + d[off + 2]
BE32At(d, off) == <<BE16At(d, off), BE16At(d, off + 2)>>

Returned == result.tag \in {"Some", "None"}

IsSome(variant, val) ==
    /\ result.tag = "Some"
    /\ result.opt.variant = variant
    /\ result.opt.val = val

\* C1: every invocation of a registered parser, on an entry of any length and
\* content, returns Some(option) or None; none panics.
C1_NoDecoderPanics == called => Returned

\* C2: the QuickStartResponse parser (key 27) returns None for every entry
\* whose length is not 8 and, for an entry of 8 bytes, QuickStartResponse(v)
\* with v the 6 bytes at offsets 2..8 read big-endian and zero-extended to 64
\* bits.
C2_QuickStartResponse ==
    (called /\ looked = 27) =>
        IF Len(data) # 8 THEN result.tag = "None"
        ELSE IsSome("QuickStartResponse",
                 <<<<0, BE16At(data, 2), BE16At(data, 4), BE16At(data, 6)>>>>)

MarkerKinds == {4, 16, 17, 20, 21, 22, 23, 24, 26, 29}

VariantOf(k) == CHOOSE v \in DOMAIN Discriminant : Discriminant[v] = k

\* C3: the parser of SackPermitted (4) and of each other capability marker
\* (16, 17, 20, 21, 22, 23, 24, 26, 29) returns the marker exactly when the
\* entry is 2 bytes long and None for every other length.
C3_MarkersRequireLengthTwo ==
    (called /\ looked \in MarkerKinds) =>
        IF Len(data) = 2 THEN IsSome(VariantOf(looked), <<>>)
        ELSE result.tag = "None"

OpaqueKinds == {30, 69, 172, 174, 253, 254}

\* C4: for each opaque-payload kind (30, 69, 172, 174, 253, 254) the lookup
\* yields a parser, which returns None for entries shorter than 4 bytes and
\* otherwise the kind's variant carrying the bytes from offset 2 to the end.
C4_OpaqueKindsDecode ==
    (looked \in OpaqueKinds) =>
        /\ found
        /\ called =>
               IF Len(data) < 4 THEN result.tag = "None"
               ELSE IsSome(VariantOf(looked), SubSeq(data, 3, Len(data)))

\* C5: the Sack parser (key 5) accepts an entry iff its length len is at
\* least 2 and (len - 2) % 8 = 0; it then returns (len - 2) / 8 blocks, block
\* j holding the big-endian u32 at offsets 2+8j..6+8j as left edge and the
\* one at 6+8j..10+8j as right edge; every other length gives None.
C5_SackBlocks ==
    (called /\ looked = 5) =>
        LET len == Len(data)
        IN  IF len >= 2 /\ (len - 2) % 8 = 0
            THEN /\ result.tag = "Some"
                 /\ result.opt.variant = "Sack"
                 /\ Len(result.opt.val) = (len - 2) \div 8
                 /\ \A j \in 0..((len - 2) \div 8 - 1) :
                        /\ result.opt.val[j + 1].left_edge = BE32At(data, 2 + 8 * j)
                        /\ result.opt.val[j + 1].right_edge = BE32At(data, 6 + 8 * j)
            ELSE result.tag = "None"

C5_TwoBlocksDecoded ==
    /\ called
    /\ looked = 5
    /\ Len(data) = 18
    /\ result.tag = "Some"
    /\ Len(result.opt.val) = 2
    /\ result.opt.val[2].left_edge # result.opt.val[1].left_edge

FixedKinds == {2, 3, 8, 18, 28, 34}

FixedLength(k) ==
    CASE k = 2 -> 4
      [] k = 3 -> 3
      [] k = 8 -> 10
      [] k = 18 -> 3
      [] k = 28 -> 4
      [] k = 34 -> 18

FixedValue(k, d) ==
    CASE k = 2 -> <<BE16At(d, 2)>>
      [] k = 3 -> <<d[3]>>
      [] k = 8 -> <<[value |-> BE32At(d, 2), echo_reply |-> BE32At(d, 6)]>>
      [] k = 18 -> <<d[3]>>
      [] k = 28 -> <<BE16At(d, 2)>>
      [] k = 34 -> <<[j \in 1..8 |-> BE16At(d, 2 * j)]>>

\* C6: the parser of each fixed-payload kind (2, 3, 8, 18, 28, 34) returns a
\* value iff the entry has the kind's length (4, 3, 10, 3, 4, 18), the value
\* being the big-endian reading of the payload from offset 2; the entry
\* 02 04 05 B4 gives MaximumSegmentSize(1460).
C6_FixedPayloads ==
    (called /\ looked \in FixedKinds) =>
        /\ IF Len(data) = FixedLength(looked)
           THEN IsSome(VariantOf(looked), FixedValue(looked, data))
           ELSE result.tag = "None"
        /\ (looked = 2 /\ data = MSSExample) => result.opt.val = <<1460>>

C6_MSSExampleDecoded ==
    /\ called
    /\ looked = 2
    /\ data = MSSExample
    /\ IsSome("MaximumSegmentSize", <<1460>>)

(***************************************************************************)
(* Properties of the walker and pipeline.                                  *)
(***************************************************************************)
\* C7: an entry whose kind is not a key of the registry decodes to
\* Unknown(kind, payload), an entry whose registered parser rejects it to
\* Malformed(kind, declaredLength, payload), and every entry yields some
\* decoded entry: decoding never fails.
C7_EveryEntryDecodes ==
    /\ status # "panic"
    /\ \A i \in 1..Len(out) :
           LET raw == out[i].raw
               k == raw[1]
               o == out[i].opt
           IN  k \notin {0, 1} =>
                   /\ ~ContainsKey(k) =>
                          /\ o.variant = "Unknown"
                          /\ o.val = <<k, SubSeq(raw, 3, Len(raw))>>
                   /\ (ContainsKey(k) /\ Parser(k, raw).tag = "None") =>
                          /\ o.variant = "Malformed"
                          /\ o.val = <<k, raw[2], SubSeq(raw, 3, Len(raw))>>

\* what the pipeline has emitted for the well-formed entries in [pos, target)
RECURSIVE EmittedBefore(_, _)
EmittedBefore(pos, target) ==
    IF pos >= target THEN <<>>
    ELSE IF ByteAt(pos) = 1
    THEN <<Emitted(<<1>>, Opt("NoOperation", <<>>))>> \o EmittedBefore(pos + 1, target)
    ELSE LET len == ByteAt(pos + 1)
             entry == SubSeq(buffer, pos + 1, pos + len)
         IN  <<Emitted(entry, DecodeEntry(ByteAt(pos), len, entry).opt)>>
                 \o EmittedBefore(pos + len, target)

SameOut(a, b) ==
    /\ Len(a) = Len(b)
    /\ \A i \in 1..Len(a) :
           /\ a[i].raw = b[i].raw
           /\ a[i].opt.variant = b[i].opt.variant
           /\ a[i].opt.val = b[i].opt.val

C9_State ==
    /\ runs <= 1
    /\ (cell = "complete") => (runs = 1 /\ DOMAIN value = RegisteredKinds)
    /\ \A t \in Threads :
           (tpc[t] = "got") =>
               /\ runs = 1
               /\ DOMAIN seen[t] = RegisteredKinds
               /\ seen[t] = value

C9_Step == (cell = "complete") => (cell' = "complete" /\ value' = value)

\* C9: under every interleaving of concurrent first uses the construction
\* closure runs exactly once, every caller that obtains the table sees all
\* registered kinds in it, and once built the table never changes.
C9_BuiltOnce == [](C9_State) /\ [][C9_Step]_vars

C9_TwoCallersSeeTable ==
    \E t, u \in Threads :
        /\ t # u
        /\ tpc[t] = "got"
        /\ tpc[u] = "got"
        /\ runs = 1
        /\ DOMAIN seen[t] = RegisteredKinds
        /\ seen[u] = seen[t]

SameResult(a, b) ==
    /\ a.tag = b.tag
    /\ a.opt.variant = b.opt.variant
    /\ a.opt.val = b.opt.val

====
